---- MODULE Spec2Model ----
(***************************************************************************)
(* Model of uploads/post_processing.py: the command dispatcher (main), the *)
(* video build orchestrator (build_videos) and the object upload client    *)
(* (upload_file).  The encoder processes started by Popen run concurrently *)
(* with the orchestrator and exit on their own (ProcExit).                  *)
(***************************************************************************)
EXTENDS Naturals, Integers, Sequences, FiniteSets, TLC

\* ------------------------------------------------------------------ bounds
MaxTokens == 3      \* underscore-delimited tokens in a camera folder name
MaxFolders == 2     \* camera folders with an rgb/ sub-directory
MaxFiles == 2       \* files below the source directory seen by the upload glob

\* ------------------------------------------------------------ input domains
None == "None"
Tokens == {"a", "b"}
FolderNames == UNION {[1..n -> Tokens] : n \in 1..MaxTokens}
PathStates == {None, "missing", "present"}
Exts == {"png", "jpg"}
Formats == {"png"}
Dirs == {"top", "sub"}
AllFiles == [dir : Dirs, base : {"f"}, ext : Exts]
StorageOutcomes == {"ok", "ClientError", "S3UploadFailedError"}
LaunchOutcomes == {"ok", "makedirs", "open", "Popen"}

VARIABLES args, pc, exc, rgb_folders, build_process_list, status, waited,
          log_dir, log_files, launch_failed, errors, tree, files, uploads

vars == <<args, pc, exc, rgb_folders, build_process_list, status, waited,
          log_dir, log_files, launch_failed, errors, tree, files, uploads>>

\* ------------------------------------------------------------------ helpers
\* truthiness of an optional command line value (None when not supplied)
Truthy(x) == x # None

\* variant: a supplied path counts as a directory without looking at it
IsDirAnyPath(p) == p # None

\* os.path.isdir / os.path.isfile on a supplied path
IsDir(p) == p = "present"

IsFile(p) == p = "present"

\* camera_folder_name.split('_', 2)[-1] on a name given as its token list:
\* at most two splits, so tokens 3.. stay joined as the last part
CameraIdentifier(name) ==
    IF Len(name) >= 3 THEN SubSeq(name, 3, Len(name))
    ELSE <<name[Len(name)]>>

\* os.path.join(curr_dir, "video_creation_logs", "<camera>.log")
LogFilePath(name) == CameraIdentifier(name)

\* "<folder>/<camera>.mp4" of the ffmpeg command line
VideoPath(name) == <<name, CameraIdentifier(name)>>

\* os.path.basename(file)
BaseName(f) == <<f.base, f.ext>>

\* glob "<source_directory>/**/*.<format_to_copy>", recursive
GlobMatches(f, fmt) == f.ext = fmt

\* an S3 object key: optional "<prefix>/" followed by a name
Key(prefix, name) == [prefix |-> prefix, name |-> name]

\* object_name=None
NoObject == Key(None, <<>>)

\* destination_object computed by main for one file of the directory batch
DestinationObject(f, dd) ==
    IF Truthy(dd) THEN Key(dd, BaseName(f)) ELSE NoObject

\* object_name defaulting at the top of upload_file
ObjectName(file_name, object_name) ==
    IF object_name = NoObject THEN Key(None, BaseName(file_name)) ELSE object_name

\* upload_file: the call made to the storage client and how it ends;
\* only ClientError is caught, any other error leaves the function
UploadFile(batch, file_name, object_name, outcome) ==
    [batch |-> batch, file |-> file_name,
     key |-> ObjectName(file_name, object_name),
     outcome |-> outcome,
     result |-> IF outcome = "ok" THEN "True"
                ELSE IF outcome = "ClientError" THEN "False" ELSE "raised"]

\* all orderings of a finite set
Orderings(S) ==
    {s \in [1..Cardinality(S) -> S] : \A i, j \in 1..Cardinality(S) : s[i] = s[j] => i = j}

\* duplicate-free lists of at most n elements of S
DistinctSeqs(S, n) ==
    {s \in UNION {[1..k -> S] : k \in 0..n} : \A i, j \in DOMAIN s : s[i] = s[j] => i = j}

Running == {i \in DOMAIN status : status[i] = "running"}

\* --------------------------------------------------------------------- Init
\* The parsed command line.  An option that main never reads for the given
\* combination is left at None, since supplying it changes nothing: without
\* --bucket no upload option is read, --format_to_copy and
\* --destination_directory are read only for a source directory that exists,
\* --destination_file only for a source file that exists.
Options ==
    {a \in [source_directory : PathStates, build : BOOLEAN,
            format_to_copy : Formats \cup {None}, destination_directory : {None, "out"},
            source_file : PathStates, destination_file : {None, "dst"},
            bucket : {None, "bkt"}] :
        /\ (a.format_to_copy # None) <=> (Truthy(a.bucket) /\ IsDir(a.source_directory))
        /\ (a.destination_directory # None) => (Truthy(a.bucket) /\ IsDir(a.source_directory))
        /\ (a.source_file # None) => Truthy(a.bucket)
        /\ (a.destination_file # None) => (Truthy(a.bucket) /\ IsFile(a.source_file))}

Init ==
    /\ args \in Options
    /\ pc = "main_build"
    /\ exc = None
    /\ rgb_folders = <<>>
    /\ build_process_list = <<>>
    /\ status = <<>>
    /\ waited = <<>>
    /\ log_dir = FALSE
    /\ log_files = {}
    /\ launch_failed = FALSE
    /\ errors = {}
    /\ tree = {}
    /\ files = <<>>
    /\ uploads = <<>>

\* ------------------------------------------------------------ build_videos
InvalidDirMsg(site) == <<site, "Invalid source_directory passed.">>

FfmpegMsg == <<"build_videos", "Could not run ffmpeg command; requires ffmpeg to be installed">>

\* variant: the except clause terminates what it had launched
OnLaunchErrorKill(st) ==
    [i \in DOMAIN st |-> IF st[i] = "running" THEN "killed" ELSE st[i]]

\* the except clause of build_videos only logs: launched processes keep
\* whatever state they have
OnLaunchError(st) == st

\* variant: the wait loop walks build_process_list back to front
NextToWaitReversed(list, w) == Len(list) - Len(w)

\* the wait loop walks build_process_list front to back
NextToWait(list, w) == Len(w) + 1

\* main, "if build:" not taken
MainSkipBuild ==
    /\ pc = "main_build"
    /\ ~args.build
    /\ pc' = "main_bucket"
    /\ UNCHANGED <<args, exc, rgb_folders, build_process_list, status, waited,
                   log_dir, log_files, launch_failed, errors, tree, files, uploads>>

\* build_videos(None): os.path.isdir(None) raises TypeError, which nothing catches
BuildVideosNoDirectory ==
    /\ pc = "main_build"
    /\ args.build
    /\ args.source_directory = None
    /\ exc' = "TypeError"
    /\ pc' = "crashed"
    /\ UNCHANGED <<args, rgb_folders, build_process_list, status, waited,
                   log_dir, log_files, launch_failed, errors, tree, files, uploads>>

\* build_videos on a path that is not a directory: the else branch
BuildVideosInvalid ==
    /\ pc = "main_build"
    /\ args.build
    /\ args.source_directory # None
    /\ ~IsDir(args.source_directory)
    /\ errors' = errors \cup {InvalidDirMsg("build_videos")}
    /\ pc' = "main_bucket"
    /\ UNCHANGED <<args, exc, rgb_folders, build_process_list, status, waited,
                   log_dir, log_files, launch_failed, tree, files, uploads>>

\* build_videos on a directory: glob "<source_directory>/*/rgb/" in any order
BuildVideosDiscover ==
    /\ pc = "main_build"
    /\ args.build
    /\ args.source_directory # None
    /\ IsDir(args.source_directory)
    /\ \E fl \in DistinctSeqs(FolderNames, MaxFolders) :
          /\ rgb_folders' = fl
          /\ pc' = IF fl = <<>> THEN "bv_wait" ELSE "bv_launch"
    /\ UNCHANGED <<args, exc, build_process_list, status, waited,
                   log_dir, log_files, launch_failed, errors, tree, files, uploads>>

\* one iteration of the launch loop: makedirs, open, Popen, append; an error
\* raised by any of them goes to the except clause, which logs and lets
\* build_videos return (its locals go out of scope)
BuildLaunch ==
    /\ pc = "bv_launch"
    /\ Len(build_process_list) < Len(rgb_folders)
    /\ LET folder == rgb_folders[Len(build_process_list) + 1] IN
       \E o \in LaunchOutcomes :
          /\ log_dir' = (log_dir \/ o # "makedirs")
          /\ log_files' = IF o \in {"ok", "Popen"}
                          THEN log_files \cup {LogFilePath(folder)}
                          ELSE log_files
          /\ IF o = "ok"
             THEN /\ build_process_list' = Append(build_process_list,
                        [folder |-> folder, log |-> LogFilePath(folder),
                         video |-> VideoPath(folder)])
                  /\ status' = Append(status, "running")
                  /\ pc' = IF Len(build_process_list') = Len(rgb_folders)
                           THEN "bv_wait" ELSE "bv_launch"
                  /\ UNCHANGED <<rgb_folders, launch_failed, errors>>
             ELSE /\ launch_failed' = TRUE
                  /\ errors' = errors \cup {FfmpegMsg}
                  /\ status' = OnLaunchError(status)
                  /\ pc' = "main_bucket"
                  /\ rgb_folders' = <<>>
                  /\ build_process_list' = <<>>
    /\ UNCHANGED <<args, exc, waited, tree, files, uploads>>

\* process.wait() on the next process of build_process_list returns once it exited
BuildWait ==
    /\ pc = "bv_wait"
    /\ Len(waited) < Len(build_process_list)
    /\ LET k == NextToWait(build_process_list, waited) IN
          /\ status[k] = "exited"
          /\ waited' = Append(waited, k)
    /\ UNCHANGED <<args, pc, exc, rgb_folders, build_process_list, status,
                   log_dir, log_files, launch_failed, errors, tree, files, uploads>>

\* the wait loop is over: "Finished creating videos", build_videos returns
\* and its locals (rgb_folders, build_process_list) go out of scope
BuildReturn ==
    /\ pc = "bv_wait"
    /\ Len(waited) = Len(build_process_list)
    /\ pc' = "main_bucket"
    /\ rgb_folders' = <<>>
    /\ build_process_list' = <<>>
    /\ waited' = <<>>
    /\ UNCHANGED <<args, exc, status,
                   log_dir, log_files, launch_failed, errors, tree, files, uploads>>

\* an encoder process terminates on its own
ProcExit ==
    /\ \E i \in Running : status' = [status EXCEPT ![i] = "exited"]
    /\ UNCHANGED <<args, pc, exc, rgb_folders, build_process_list, waited,
                   log_dir, log_files, launch_failed, errors, tree, files, uploads>>

\* --------------------------------------------------------------- main, upload
InvalidFileMsg == <<"main", "Invalid source_file passed.">>

ClientErrorMsg == <<"upload_file", "ClientError">>

\* the file named by --source_file
SourceFile == [dir |-> "top", base |-> "src", ext |-> "bin"]

\* destination_file as the object_name argument
DestinationFile(df) == IF Truthy(df) THEN Key(None, <<df>>) ELSE NoObject

DirUploads == SelectSeq(uploads, LAMBDA u : u.batch = "dir")

SingleUploads == SelectSeq(uploads, LAMBDA u : u.batch = "single")

\* main, "if bucket:" not taken
MainNoBucket ==
    /\ pc = "main_bucket"
    /\ ~Truthy(args.bucket)
    /\ pc' = "done"
    /\ UNCHANGED <<args, exc, rgb_folders, build_process_list, status, waited,
                   log_dir, log_files, launch_failed, errors, tree, files, uploads>>

\* main, "if source_directory:" not taken
MainNoSourceDirectory ==
    /\ pc = "main_bucket"
    /\ Truthy(args.bucket)
    /\ ~Truthy(args.source_directory)
    /\ pc' = "up_single"
    /\ UNCHANGED <<args, exc, rgb_folders, build_process_list, status, waited,
                   log_dir, log_files, launch_failed, errors, tree, files, uploads>>

\* main, source_directory is not a directory
MainInvalidSourceDirectory ==
    /\ pc = "main_bucket"
    /\ Truthy(args.bucket)
    /\ Truthy(args.source_directory)
    /\ ~IsDir(args.source_directory)
    /\ errors' = errors \cup {InvalidDirMsg("main")}
    /\ pc' = "up_single"
    /\ UNCHANGED <<args, exc, rgb_folders, build_process_list, status, waited,
                   log_dir, log_files, launch_failed, tree, files, uploads>>

\* main, glob of the files to copy below source_directory, in any order
MainGlobFiles ==
    /\ pc = "main_bucket"
    /\ Truthy(args.bucket)
    /\ Truthy(args.source_directory)
    /\ IsDir(args.source_directory)
    /\ \E t \in {x \in SUBSET AllFiles : Cardinality(x) <= MaxFiles} :
          /\ tree' = t
          /\ \E fs \in Orderings({f \in t : GlobMatches(f, args.format_to_copy)}) :
                /\ files' = fs
                /\ pc' = IF fs = <<>> THEN "up_single" ELSE "up_dir"
    /\ UNCHANGED <<args, exc, rgb_folders, build_process_list, status, waited,
                   log_dir, log_files, launch_failed, errors, uploads>>

\* one iteration of "for file in files": upload_file(file, bucket, destination_object)
UploadDirFile ==
    /\ pc = "up_dir"
    /\ Len(DirUploads) < Len(files)
    /\ LET f == files[Len(DirUploads) + 1] IN
       \E o \in StorageOutcomes :
          LET u == UploadFile("dir", f,
                              DestinationObject(f, args.destination_directory), o) IN
          /\ uploads' = Append(uploads, u)
          /\ errors' = IF u.result = "False" THEN errors \cup {ClientErrorMsg} ELSE errors
          /\ exc' = IF u.result = "raised" THEN o ELSE exc
          /\ pc' = IF u.result = "raised" THEN "crashed"
                   ELSE IF Len(DirUploads) + 1 = Len(files) THEN "up_single"
                   ELSE "up_dir"
    /\ UNCHANGED <<args, rgb_folders, build_process_list, status, waited,
                   log_dir, log_files, launch_failed, tree, files>>

\* main, "if source_file:" not taken
MainNoSourceFile ==
    /\ pc = "up_single"
    /\ ~Truthy(args.source_file)
    /\ pc' = "done"
    /\ UNCHANGED <<args, exc, rgb_folders, build_process_list, status, waited,
                   log_dir, log_files, launch_failed, errors, tree, files, uploads>>

\* main, source_file is not a file
MainInvalidSourceFile ==
    /\ pc = "up_single"
    /\ Truthy(args.source_file)
    /\ ~IsFile(args.source_file)
    /\ errors' = errors \cup {InvalidFileMsg}
    /\ pc' = "done"
    /\ UNCHANGED <<args, exc, rgb_folders, build_process_list, status, waited,
                   log_dir, log_files, launch_failed, tree, files, uploads>>

\* main, upload_file(source_file, bucket, destination_file)
UploadSingleFile ==
    /\ pc = "up_single"
    /\ Truthy(args.source_file)
    /\ IsFile(args.source_file)
    /\ \E o \in StorageOutcomes :
          LET u == UploadFile("single", SourceFile,
                              DestinationFile(args.destination_file), o) IN
          /\ uploads' = Append(uploads, u)
          /\ errors' = IF u.result = "False" THEN errors \cup {ClientErrorMsg} ELSE errors
          /\ exc' = IF u.result = "raised" THEN o ELSE exc
          /\ pc' = IF u.result = "raised" THEN "crashed" ELSE "done"
    /\ UNCHANGED <<args, rgb_folders, build_process_list, status, waited,
                   log_dir, log_files, launch_failed, tree, files>>

Next ==
    \/ MainSkipBuild
    \/ BuildVideosNoDirectory
    \/ BuildVideosInvalid
    \/ BuildVideosDiscover
    \/ BuildLaunch
    \/ BuildWait
    \/ BuildReturn
    \/ ProcExit
    \/ MainNoBucket
    \/ MainNoSourceDirectory
    \/ MainInvalidSourceDirectory
    \/ MainGlobFiles
    \/ UploadDirFile
    \/ MainNoSourceFile
    \/ MainInvalidSourceFile
    \/ UploadSingleFile

Spec == Init /\ [][Next]_vars

\* main has ended, by returning or by an uncaught exception
Terminated == pc \in {"done", "crashed"}

\* ------------------------------------------------------------------ claims

\* C1: when build_videos has returned (and main goes on to the uploads), no
\* encoder process launched by it is still running, on every path
C1_BuildBlocksUntilAllExited ==
    (args.build /\ pc \in {"main_bucket", "up_dir", "up_single"}) => Running = {}

\* the naming convention of the comment at the split: at least two underscores
FollowsConvention(name) == Len(name) >= 3

\* C2: with no launch error, a build over N camera folders leaves exactly N
\* distinct log files and has made exactly N launches, for every set of
\* folder names that follow the naming convention
C2_NLogFilesNLaunches ==
    (pc = "bv_wait" /\ \A i \in DOMAIN rgb_folders : FollowsConvention(rgb_folders[i])) =>
        /\ Cardinality(log_files) = Len(rgb_folders)
        /\ Len(build_process_list) = Len(rgb_folders)

\* C3: no two running encode jobs (of folders that follow the naming
\* convention) share a log file or an output video path
C3_ExclusiveLogAndOutput ==
    \A i, j \in DOMAIN build_process_list :
        (/\ i # j
         /\ status[i] = "running" /\ status[j] = "running"
         /\ FollowsConvention(build_process_list[i].folder)
         /\ FollowsConvention(build_process_list[j].folder)) =>
            /\ build_process_list[i].log # build_process_list[j].log
            /\ build_process_list[i].video # build_process_list[j].video

\* C4: upload_file never lets an exception out, and returns True exactly when
\* the storage call completed without error
C4_UploadNeverPropagates ==
    \A k \in DOMAIN uploads :
        /\ uploads[k].result # "raised"
        /\ (uploads[k].result = "True") <=> (uploads[k].outcome = "ok")

\* C5: no exception leaves main when a source path is missing or not supplied;
\* --build without --source_directory, with --bucket and a valid
\* --source_file, still performs the single-file upload
C5_MissingInputsSkipped ==
    /\ exc # "TypeError"
    /\ (Terminated /\ args.build /\ args.source_directory = None
          /\ Truthy(args.bucket) /\ args.source_file = "present")
        => Len(SingleUploads) = 1

\* C6: with bucket, source directory and source file all supplied, the number
\* of upload attempts is (matching files) + 1 whichever uploads fail
C6_AllUploadsAttempted ==
    (Terminated /\ Truthy(args.bucket) /\ args.source_directory = "present"
       /\ args.source_file = "present")
    => Len(uploads) = Len(files) + 1

\* C7: with a source directory path that does not exist, build and directory
\* upload each log an error and nothing else happens: no log directory, no
\* encoder process, no upload call for the directory batch
C7_MissingDirectoryNoSideEffects ==
    args.source_directory = "missing" =>
        /\ ~log_dir
        /\ log_files = {}
        /\ status = <<>>
        /\ DirUploads = <<>>
        /\ (args.build /\ pc # "main_build") => InvalidDirMsg("build_videos") \in errors
        /\ (Truthy(args.bucket) /\ pc \in {"up_single", "done", "crashed"})
              => InvalidDirMsg("main") \in errors

C7_Witness ==
    /\ args.source_directory = "missing"
    /\ args.build
    /\ Truthy(args.bucket)
    /\ pc = "done"
    /\ {InvalidDirMsg("build_videos"), InvalidDirMsg("main")} \subseteq errors

\* number of directory-batch upload calls made for file f
DirUploadCount(f) == Len(SelectSeq(DirUploads, LAMBDA u : u.file = f))

\* C8: directory upload calls upload exactly once for each file below the
\* source directory whose name has the format suffix, never for another file,
\* with key <basename> or <destination_directory>/<basename>
C8_EachMatchingFileOnce ==
    (Terminated /\ Truthy(args.bucket) /\ args.source_directory = "present") =>
        /\ \A f \in AllFiles :
              DirUploadCount(f) =
                  IF f \in tree /\ f.ext = args.format_to_copy THEN 1 ELSE 0
        /\ \A k \in DOMAIN DirUploads :
              DirUploads[k].key =
                  Key(args.destination_directory, BaseName(DirUploads[k].file))

\* C9: a launch error is caught: build_videos logs the ffmpeg hint and
\* returns normally, nothing is launched afterwards and no launched process
\* is killed
C9_LaunchErrorCaught ==
    [][/\ (~launch_failed /\ launch_failed') =>
             (pc' = "main_bucket" /\ exc' = None /\ FfmpegMsg \in errors')
       /\ launch_failed' =>
             \A i \in DOMAIN status' : status'[i] # "killed"
       /\ launch_failed => Len(status') = Len(status)]_vars

C9_Witness ==
    /\ launch_failed
    /\ Running # {}
    /\ pc = "main_bucket"

\* C10: with no launch error every discovered job is launched before any wait,
\* and the processes are waited on in launch order
C10_LaunchAllThenWaitInOrder ==
    /\ pc = "bv_launch" => waited = <<>>
    /\ waited # <<>> => Len(build_process_list) = Len(rgb_folders)
    /\ \A k \in DOMAIN waited : waited[k] = k

C10_Witness ==
    /\ pc = "bv_wait"
    /\ Len(waited) >= 2

====
